---- MODULE Spec2Model ----
(***************************************************************************)
(* The write path of data_base (src/src/data_base.cpp): the coordinator    *)
(* over the block, transaction and address stores, its write mutex, its    *)
(* flush lock and the header and block reorganization built on it.         *)
(***************************************************************************)
EXTENDS Integers, Sequences, FiniteSets, TLC

\* ------------------------------------------------------------------ bounds

\* Header hashes are 0..MaxBlock; 0 is the genesis header.
MaxBlock == 2
\* Longest incoming list offered to reorganize.
MaxIncoming == 1
\* Calls of the public writers and of reorganize made after create().
MaxCalls == 2
\* Accessors onto one memory map, and remaps of it.
MaxAccessors == 3
MaxRemaps == 2
\* Calls of assign on one accessor.
MaxAssigns == 2
\* Width of size_t in bits.
SizeBits == 16
max_size_t == 2 ^ SizeBits - 1

Blocks == 0 .. MaxBlock
Threads == {"t1", "t2"}

NoHash == MaxBlock + 1
NoThread == "none"
Genesis == 0

\* The previous-block hash of a header: the headers form a binary tree under
\* the genesis header (1 and 2 follow 0; 3 and 4 follow 1; ...).
Prev(b) == IF b = Genesis THEN NoHash ELSE (b - 1) \div 2

\* The (on-wire ordered) transactions of a block.
TxsOf(b) == IF b % 2 = 1 THEN <<1, 0>> ELSE <<0>>

Range(s) == {s[i] : i \in 1 .. Len(s)}

\* Transaction hashes: the transactions of the blocks.
Txs == UNION {Range(TxsOf(b)) : b \in Blocks}

\* The median time past carried by a header's metadata.
Mtp(b) == b

\* Incoming lists of a reorganize call.
SeqsUpTo(S, n) == UNION {[1 .. m -> S] : m \in 0 .. n}

\* ------------------------------------------------------------------ state

VARIABLES
    closed,            \* data_base::closed_
    index_addresses,   \* settings_.index_addresses
    flush_each_write,  \* settings.flush_writes, as store::flush_each_write()
    exclusive_lock,    \* the data directory's exclusive file lock is held
    created,           \* the backing files of the leaf stores exist
    sentinel,          \* the flush lock file is present on disk
    write_mutex,       \* data_base::write_mutex_: its owner
    flush_lock_mutex,  \* store::flush_lock_mutex_: its owner
    db,                \* the three leaf stores
    th,                \* each thread's position and locals
    active,            \* the threads that call into the store
    calls,             \* the calls made so far
    store_ok,          \* per transaction hash, the store calls that returned success
    life,              \* the leaf store objects: open or not, close() calls on them
    mem                \* a memory map's remap mutex and the accessors onto it

vars == <<closed, index_addresses, flush_each_write, exclusive_lock, created, sentinel,
          write_mutex, flush_lock_mutex, db, th, active, calls, store_ok, life,
          mem>>

\* ------------------------------------------------------------ leaf stores
\* The leaf stores are used through the operations data_base.cpp calls.

NoConf == <<>>

EmptyDb ==
    [hdr       |-> [b \in Blocks |-> [stored |-> FALSE, state |-> "missing",
                                      txs |-> FALSE]],
     candidate |-> <<>>,
     confirmed |-> <<>>,
     tx        |-> [x \in Txs |-> [recs |-> 0, cand |-> FALSE,
                                   conf |-> NoConf]],
     addr      |-> {}]

Index(d, cand) == IF cand THEN d.candidate ELSE d.confirmed

\* blocks.top(out, candidate): false on an empty index.
HasTop(d, cand) == Len(Index(d, cand)) > 0
Top(d, cand) == Len(Index(d, cand)) - 1

\* blocks.get(height, candidate): the header hash at a height, if any.
GetAt(d, height, cand) ==
    IF height + 1 <= Len(Index(d, cand)) THEN Index(d, cand)[height + 1]
    ELSE NoHash

\* transactions.get(hash): a record with the hash exists.
TxStored(d, x) == d.tx[x].recs > 0

\* The transaction links bound to a stored header (block_result iteration).
Links(d, b) == IF b \in Blocks /\ d.hdr[b].txs THEN TxsOf(b) ELSE <<>>

\* The heights offered to a call: every height of either index, the next
\* one and one beyond it.
Heights(d) ==
    0 .. (IF Len(d.candidate) > Len(d.confirmed) THEN Len(d.candidate)
          ELSE Len(d.confirmed)) + 1

\* Each leaf mutation: whether the store can perform it, and the store after.
LeafCan(d, l) ==
    CASE l.leaf = "blocks.store"    -> TRUE
      [] l.leaf = "blocks.index"    -> /\ d.hdr[l.b].stored
                                       /\ l.h = Len(Index(d, l.cand))
      [] l.leaf = "blocks.unindex"  -> /\ HasTop(d, l.cand)
                                       /\ Top(d, l.cand) = l.h
                                       /\ GetAt(d, l.h, l.cand) = l.b
      [] l.leaf = "blocks.update"   -> d.hdr[l.b].stored
      [] l.leaf = "blocks.validate" -> d.hdr[l.b].stored
      [] l.leaf = "tx.store"        -> TRUE
      [] l.leaf = "tx.store_all"    -> TRUE
      [] l.leaf = "tx.confirm"      -> TxStored(d, l.x)
      [] l.leaf = "tx.confirm_all"  -> \A x \in Range(TxsOf(l.b)) : TxStored(d, x)
      [] l.leaf = "tx.unconfirm"    -> TxStored(d, l.x)
      [] l.leaf = "tx.candidate"    -> TxStored(d, l.x)
      [] l.leaf = "tx.uncandidate"  -> TxStored(d, l.x)
      [] l.leaf = "addr.index"      -> TRUE
      [] l.leaf = "addr.index_all"  -> TRUE

PositionIn(s, x) == (CHOOSE i \in 1 .. Len(s) : s[i] = x) - 1

LeafDo(d, l) ==
    CASE l.leaf = "blocks.store" ->
            [d EXCEPT !.hdr[l.b].stored = TRUE]
      [] l.leaf = "blocks.index" ->
            IF l.cand THEN [d EXCEPT !.candidate = Append(@, l.b)]
            ELSE [d EXCEPT !.confirmed = Append(@, l.b)]
      [] l.leaf = "blocks.unindex" ->
            IF l.cand THEN [d EXCEPT !.candidate = SubSeq(@, 1, Len(@) - 1)]
            ELSE [d EXCEPT !.confirmed = SubSeq(@, 1, Len(@) - 1)]
      [] l.leaf = "blocks.update" ->
            [d EXCEPT !.hdr[l.b].txs = TRUE]
      [] l.leaf = "blocks.validate" ->
            [d EXCEPT !.hdr[l.b].state =
                          IF l.code = "success" THEN "valid" ELSE "failed"]
      [] l.leaf = "tx.store" ->
            [d EXCEPT !.tx[l.x].recs = @ + 1]
      [] l.leaf = "tx.store_all" ->
            [d EXCEPT !.tx = [x \in Txs |->
                IF x \in Range(TxsOf(l.b)) /\ @[x].recs = 0
                THEN [@[x] EXCEPT !.recs = 1]
                ELSE @[x]]]
      [] l.leaf = "tx.confirm" ->
            [d EXCEPT !.tx[l.x].conf = <<l.h, l.mtp, l.pos>>]
      [] l.leaf = "tx.confirm_all" ->
            [d EXCEPT !.tx = [x \in Txs |->
                IF x \in Range(TxsOf(l.b))
                THEN [@[x] EXCEPT !.conf =
                          <<l.h, l.mtp, PositionIn(TxsOf(l.b), x)>>]
                ELSE @[x]]]
      [] l.leaf = "tx.unconfirm" ->
            [d EXCEPT !.tx[l.x].conf = NoConf]
      [] l.leaf = "tx.candidate" ->
            [d EXCEPT !.tx[l.x].cand = TRUE]
      [] l.leaf = "tx.uncandidate" ->
            [d EXCEPT !.tx[l.x].cand = FALSE]
      [] l.leaf = "addr.index" ->
            [d EXCEPT !.addr = @ \cup {l.x}]
      [] l.leaf = "addr.index_all" ->
            [d EXCEPT !.addr = @ \cup Range(TxsOf(l.b))]

\* A leaf call as data_base.cpp writes it: the leaf operation, its arguments
\* and whether the caller looks at its result.
Leaf(leaf, b, h, cand, x, code, pos, checked) ==
    [leaf |-> leaf, b |-> b, h |-> h, cand |-> cand, x |-> x, code |-> code,
     mtp |-> IF b \in Blocks THEN Mtp(b) ELSE 0, pos |-> pos,
     checked |-> checked]

\* ------------------------------------------------------------ verify.hpp
\* The precondition checks of the writers, each returning an error code.

VerifyExistsTx(d, x) == IF TxStored(d, x) THEN "success" ELSE "not_found"

VerifyExistsHeader(d, b) == IF d.hdr[b].stored THEN "success" ELSE "not_found"

VerifyMissing(d, x) ==
    IF TxStored(d, x) THEN "duplicate_transaction" ELSE "success"

VerifyUpdate(d, b, h) ==
    IF GetAt(d, h, FALSE) # b THEN "not_found"
    ELSE IF d.hdr[b].txs THEN "operation_failed"
    ELSE "success"

VerifyNotFailed(d, b) ==
    IF d.hdr[b].state = "failed" THEN "operation_failed" ELSE "success"

VerifyPushHeader(d, b, h) ==
    IF ~HasTop(d, TRUE) \/ h # Top(d, TRUE) + 1
    THEN "store_block_invalid_height"
    ELSE IF Prev(b) # GetAt(d, Top(d, TRUE), TRUE)
    THEN "store_block_missing_parent"
    ELSE "success"

VerifyPushBlock(d, b, h) ==
    IF GetAt(d, h, TRUE) # b THEN "store_block_missing_parent"
    ELSE IF h # Top(d, FALSE) + 1 THEN "store_block_invalid_height"
    ELSE "success"

VerifyTop(d, h, cand) ==
    IF HasTop(d, cand) /\ Top(d, cand) = h THEN "success"
    ELSE "operation_failed"

VerifyFork(d, fork, cand) ==
    IF ~HasTop(d, cand) \/ fork.h > Top(d, cand) THEN "invalid_fork_point"
    ELSE IF GetAt(d, fork.h, cand) # fork.b THEN "invalid_fork_point"
    ELSE "success"

\* ------------------------------------------------------- store.hpp (locks)

\* store::begin_write(): creates the flush lock file; with per-write flushing
\* at each write, otherwise at the first write. The outcomes it can have.
BeginWrite(s, few) ==
    IF few \/ ~s
    THEN {[ok |-> TRUE, sentinel |-> TRUE], [ok |-> FALSE, sentinel |-> s]}
    ELSE {[ok |-> TRUE, sentinel |-> TRUE]}

\* store::end_write(): with per-write flushing, flushes and removes the file.
EndWrite(s, few) ==
    IF few
    THEN {[ok |-> TRUE, sentinel |-> FALSE], [ok |-> FALSE, sentinel |-> s]}
    ELSE {[ok |-> TRUE, sentinel |-> s]}

\* store::open(): takes the directory's exclusive lock and fails when the
\* flush lock file of an earlier run is there. Its outcomes: whether the
\* lock stays held after a failure is not fixed.
StoreOpen(lock, s) ==
    IF lock THEN {[ok |-> FALSE, lock |-> TRUE, why |-> "locked"]}
    ELSE IF s THEN {[ok |-> FALSE, lock |-> l, why |-> "sentinel"] : l \in BOOLEAN}
    ELSE {[ok |-> TRUE, lock |-> TRUE, why |-> "success"]}

\* store::close(): releases the exclusive lock and, without per-write
\* flushing, removes the flush lock file held since the first write.
StoreClose(s, few) ==
    {[ok |-> TRUE, lock |-> FALSE, sentinel |-> IF few THEN s ELSE FALSE],
     [ok |-> FALSE, lock |-> TRUE, sentinel |-> s]}

\* ------------------------------------------------- the leaf store objects

Leaves == {"blocks", "transactions", "addresses"}

\* The order in which create, open, flush and close walk the leaves.
LeafOrder(addresses) ==
    IF addresses THEN <<"blocks", "transactions", "addresses">>
    ELSE <<"blocks", "transactions">>

\* Before start(): no leaf object. opened: closed_ was set to false for these
\* leaf objects; rets, fails: the close() calls that returned, and those of
\* them that returned false; iofail: a close of a leaf or of the store failed.
NoLeaves ==
    [started |-> FALSE, opened |-> FALSE, open |-> [l \in Leaves |-> FALSE],
     closes |-> [l \in Leaves |-> 0], rets |-> 0, fails |-> 0, iofail |-> FALSE]

\* start() made new leaf objects and the leaves in order were created or
\* opened.
Started(order) ==
    [NoLeaves EXCEPT !.started = TRUE, !.open = [l \in Leaves |-> l \in Range(order)]]

\* ------------------------------------------ memory/accessor.hpp (remap lock)

Accessors == 1 .. MaxAccessors

\* boost::upgrade_mutex: the count of shared owners (an upgrade owner is one
\* of them), whether one of them owns upgrade, whether there is an exclusive
\* owner.
FreeMutex == [shared |-> 0, upgrade |-> FALSE, exclusive |-> FALSE]

\* lock_upgrade() can return: no exclusive and no other upgrade owner.
CanLockUpgrade(m) == ~m.exclusive /\ ~m.upgrade
LockUpgrade(m) == [m EXCEPT !.shared = @ + 1, !.upgrade = TRUE]

\* unlock_upgrade_and_lock_shared().
UnlockUpgradeAndLockShared(m) == [m EXCEPT !.upgrade = FALSE]

\* unlock_shared().
UnlockShared(m) == [m EXCEPT !.shared = @ - 1]

\* unlock_upgrade().
UnlockUpgrade(m) == [m EXCEPT !.upgrade = FALSE, !.shared = @ - 1]

\* unlock_upgrade_and_lock() can return: the upgrade owner is the only owner.
CanUpgradeToExclusive(m) == m.upgrade /\ m.shared = 1
UnlockUpgradeAndLock(m) ==
    [m EXCEPT !.upgrade = FALSE, !.shared = 0, !.exclusive = TRUE]

\* unlock_and_lock_upgrade().
UnlockAndLockUpgrade(m) ==
    [m EXCEPT !.exclusive = FALSE, !.upgrade = TRUE, !.shared = 1]

\* No accessor was made and no remap is under way. acc: each accessor is not
\* made ("none"), constructed, assigned or destroyed ("gone"); assigns: the
\* calls of assign on it.
NoAccessors ==
    [mutex |-> FreeMutex, acc |-> [a \in Accessors |-> "none"],
     assigns |-> [a \in Accessors |-> 0], remap |-> "idle", remaps |-> 0]

\* accessor::assign that gives the mutex up.
AssignUnlocks(m) == UnlockUpgrade(m)

\* accessor::accessor(mutex): mutex_.lock_upgrade().
Construct(m) == LockUpgrade(m)

\* accessor::assign(data): mutex_.unlock_upgrade_and_lock_shared().
Assign(m) == UnlockUpgradeAndLockShared(m)

\* accessor::~accessor(): mutex_.unlock_shared().
Destroy(m) == UnlockShared(m)

\* accessor::assign(data) on an accessor that holds shared, not upgrade,
\* ownership: unlock_upgrade_and_lock_shared() without upgrade ownership is
\* undefined; the mutex clears its upgrade flag, whoever owns it.
AssignAgain(m) == {UnlockUpgradeAndLockShared(m)}

\* accessor::~accessor() on an accessor that was never assigned:
\* unlock_shared() while holding upgrade ownership is undefined; the mutex
\* drops one shared owner and keeps its upgrade flag, or ends as after
\* unlock_upgrade().
DestroyUnassigned(m) == {UnlockShared(m), UnlockUpgrade(m)}

\* ----------------------------------------------------------- the writers

Ops == {"index_tx", "index_block", "store", "update", "invalidate",
        "candidate", "push", "push_header", "pop_header", "push_block",
        "pop_block"}

Codes == {"success", "invalid"}

NoFork == [h |-> 0, b |-> NoHash]

IdleRec ==
    [pc |-> "idle", op |-> "none", b |-> NoHash, h |-> 0, x |-> 0,
     flag |-> FALSE, code |-> "success", k |-> 0, n |-> 0, out |-> NoHash,
     rc |-> "success", began |-> FALSE, failed |-> FALSE, committed |-> FALSE,
     outer |-> "none", cand |-> FALSE, fork |-> NoFork,
     inc |-> <<>>, outg |-> <<>>, lh |-> 0, i |-> 0, snap |-> <<>>,
     stage |-> 0, inc0 |-> <<>>, snap0 |-> <<>>, pre |-> EmptyDb,
     outg0 |-> <<>>, log |-> <<>>, wasclosed |-> FALSE]

\* Which arguments each writer takes (the others stay at their defaults).
TakesBlock(op) == op \in {"index_block", "update", "invalidate", "candidate",
                          "push", "push_header", "push_block"}
TakesHeight(op) == op \in {"update", "push", "push_header", "pop_header",
                           "push_block", "pop_block"}
TakesTx(op) == op \in {"index_tx", "store"}
\* tx.metadata.existed (index) and header.metadata.exists (push_header).
TakesFlag(op) == op \in {"index_tx", "index_block", "push_header"}
TakesCode(op) == op = "invalidate"

\* index(tx), index(block): the return taken before the mutex.
EarlyReturn(op, flag, addresses) ==
    \/ op = "index_tx" /\ (~addresses \/ flag)
    \/ op = "index_block" /\ ~addresses

\* A writer that does not take the write mutex.
UniqueLockNoMutex(owner) == TRUE
\* unique_lock lock(write_mutex_): the mutex must be free to be taken.
UniqueLock(owner) == owner = NoThread

\* The verify_* call each writer makes under the mutex.
\* store(tx, forks) without its verify_missing call.
PreconditionStoreUnchecked(r, d) ==
    CASE r.op = "index_tx"    -> VerifyExistsTx(d, r.x)
      [] r.op = "index_block" -> VerifyExistsHeader(d, r.b)
      [] r.op = "store"       -> "success"
      [] r.op = "update"      -> VerifyUpdate(d, r.b, r.h)
      [] r.op = "invalidate"  -> VerifyExistsHeader(d, r.b)
      [] r.op = "candidate"   -> VerifyNotFailed(d, r.b)
      [] r.op = "push"        -> "success"
      [] r.op = "push_header" -> VerifyPushHeader(d, r.b, r.h)
      [] r.op = "pop_header"  -> VerifyTop(d, r.h, TRUE)
      [] r.op = "push_block"  -> VerifyPushBlock(d, r.b, r.h)
      [] r.op = "pop_block"   -> VerifyTop(d, r.h, FALSE)
Precondition(r, d) ==
    CASE r.op = "index_tx"    -> VerifyExistsTx(d, r.x)
      [] r.op = "index_block" -> VerifyExistsHeader(d, r.b)
      [] r.op = "store"       -> VerifyMissing(d, r.x)
      [] r.op = "update"      -> VerifyUpdate(d, r.b, r.h)
      [] r.op = "invalidate"  -> VerifyExistsHeader(d, r.b)
      [] r.op = "candidate"   -> VerifyNotFailed(d, r.b)
      [] r.op = "push"        -> "success"
      [] r.op = "push_header" -> VerifyPushHeader(d, r.b, r.h)
      [] r.op = "pop_header"  -> VerifyTop(d, r.h, TRUE)
      [] r.op = "push_block"  -> VerifyPushBlock(d, r.b, r.h)
      [] r.op = "pop_block"   -> VerifyTop(d, r.h, FALSE)

\* A writer that goes on after its verify call reported an error.
ReturnsOnErrorNever(op, v) == FALSE
\* `if ((ec = verify_...(...))) return ec;`: an error ends the writer.
ReturnsOnError(op, v) == v # "success"

\* The code a writer returns when its verify call reports the error v:
\* `return ec` with ec assigned from the call, except in pop_header, whose
\* ec is never assigned and is still the default-constructed code.
PreconditionReturn(op, v) == IF op = "pop_header" THEN "success" ELSE v

\* pop_header and pop_block read the block at the height they pop.
IsPop(op) == op \in {"pop_header", "pop_block"}
PopsCandidate(op) == op = "pop_header"

\* pop_block that leaves out_block unassigned.
OutBlockUnassigned(op, result) == NoHash

\* pop_block assigns out_block from the record it read before begin_write;
\* pop_header assigns out_header only after commit.
OutBlock(op, result) == IF op = "pop_block" THEN result ELSE NoHash

\* The leaf calls of each writer between begin_write and commit, in order.
IndexTxProgram(r) == <<Leaf("addr.index", NoHash, 0, FALSE, r.x, "success", 0, FALSE)>>

IndexBlockProgram(r) ==
    IF r.flag THEN <<>>
    ELSE [i \in 1 .. Len(TxsOf(r.b)) |->
            Leaf("addr.index", r.b, 0, FALSE, TxsOf(r.b)[i], "success", 0, FALSE)]

StoreProgram(r) == <<Leaf("tx.store", NoHash, 0, FALSE, r.x, "success", 0, TRUE)>>

UpdateProgram(r) ==
    <<Leaf("tx.store_all", r.b, r.h, FALSE, 0, "success", 0, TRUE),
      Leaf("blocks.update", r.b, r.h, FALSE, 0, "success", 0, TRUE)>>

\* invalidate that also takes the header off the confirmed index.
InvalidateProgramUnindexes(r) ==
    <<Leaf("blocks.validate", r.b, 0, FALSE, 0, r.code, 0, TRUE),
      Leaf("blocks.unindex", r.b, 0, FALSE, 0, "success", 0, FALSE)>>

InvalidateProgram(r) ==
    <<Leaf("blocks.validate", r.b, 0, FALSE, 0, r.code, 0, TRUE)>>

CandidateProgram(r) ==
    <<Leaf("blocks.validate", r.b, 0, FALSE, 0, "success", 0, TRUE)>> \o
    [i \in 1 .. Len(TxsOf(r.b)) |->
        Leaf("tx.candidate", r.b, 0, FALSE, TxsOf(r.b)[i], "success", 0, TRUE)]

\* push without its final blocks.index(hash, height, false).
PushProgramNoConfirm(r) ==
    <<Leaf("blocks.store", r.b, r.h, TRUE, 0, "success", 0, FALSE),
      Leaf("blocks.index", r.b, r.h, TRUE, 0, "success", 0, TRUE),
      Leaf("tx.store_all", r.b, r.h, FALSE, 0, "success", 0, TRUE),
      Leaf("blocks.update", r.b, r.h, FALSE, 0, "success", 0, TRUE),
      Leaf("tx.confirm_all", r.b, r.h, FALSE, 0, "success", 0, TRUE),
      Leaf("blocks.validate", r.b, r.h, FALSE, 0, "success", 0, TRUE)>>
\* push that puts the header on the confirmed index before it confirms the
\* transactions.
PushProgramIndexesFirst(r) ==
    <<Leaf("blocks.store", r.b, r.h, TRUE, 0, "success", 0, FALSE),
      Leaf("blocks.index", r.b, r.h, TRUE, 0, "success", 0, TRUE),
      Leaf("tx.store_all", r.b, r.h, FALSE, 0, "success", 0, TRUE),
      Leaf("blocks.update", r.b, r.h, FALSE, 0, "success", 0, TRUE),
      Leaf("blocks.index", r.b, r.h, FALSE, 0, "success", 0, TRUE),
      Leaf("tx.confirm_all", r.b, r.h, FALSE, 0, "success", 0, TRUE),
      Leaf("blocks.validate", r.b, r.h, FALSE, 0, "success", 0, TRUE)>>
PushProgram(r) ==
    <<Leaf("blocks.store", r.b, r.h, TRUE, 0, "success", 0, FALSE),
      Leaf("blocks.index", r.b, r.h, TRUE, 0, "success", 0, TRUE),
      Leaf("tx.store_all", r.b, r.h, FALSE, 0, "success", 0, TRUE),
      Leaf("blocks.update", r.b, r.h, FALSE, 0, "success", 0, TRUE),
      Leaf("tx.confirm_all", r.b, r.h, FALSE, 0, "success", 0, TRUE),
      Leaf("blocks.validate", r.b, r.h, FALSE, 0, "success", 0, TRUE),
      Leaf("blocks.index", r.b, r.h, FALSE, 0, "success", 0, TRUE)>>

PushHeaderProgram(r) ==
    (IF r.flag THEN <<>>
     ELSE <<Leaf("blocks.store", r.b, r.h, TRUE, 0, "success", 0, FALSE)>>) \o
    <<Leaf("blocks.index", r.b, r.h, TRUE, 0, "success", 0, FALSE)>>

PopHeaderProgram(r, d) ==
    [i \in 1 .. Len(Links(d, r.b)) |->
        Leaf("tx.uncandidate", r.b, r.h, TRUE, Links(d, r.b)[i], "success", 0, TRUE)]
    \o <<Leaf("blocks.unindex", r.b, r.h, TRUE, 0, "success", 0, TRUE)>>

\* push_block that confirms every transaction at position 0.
PushBlockProgramNoPosition(r) ==
    [i \in 1 .. Len(TxsOf(r.b)) |->
        Leaf("tx.confirm", r.b, r.h, FALSE, TxsOf(r.b)[i], "success", 0, TRUE)]
    \o <<Leaf("blocks.index", r.b, r.h, FALSE, 0, "success", 0, TRUE)>>

PushBlockProgram(r) ==
    [i \in 1 .. Len(TxsOf(r.b)) |->
        Leaf("tx.confirm", r.b, r.h, FALSE, TxsOf(r.b)[i], "success", i - 1, TRUE)]
    \o <<Leaf("blocks.index", r.b, r.h, FALSE, 0, "success", 0, TRUE)>>

PopBlockProgram(r, d) ==
    [i \in 1 .. Len(Links(d, r.b)) |->
        Leaf("tx.unconfirm", r.b, r.h, FALSE, Links(d, r.b)[i], "success", 0, TRUE)]
    \o <<Leaf("blocks.unindex", r.b, r.h, FALSE, 0, "success", 0, TRUE)>>

Program(r, d) ==
    CASE r.op = "index_tx"    -> IndexTxProgram(r)
      [] r.op = "index_block" -> IndexBlockProgram(r)
      [] r.op = "store"       -> StoreProgram(r)
      [] r.op = "update"      -> UpdateProgram(r)
      [] r.op = "invalidate"  -> InvalidateProgram(r)
      [] r.op = "candidate"   -> CandidateProgram(r)
      [] r.op = "push"        -> PushProgram(r)
      [] r.op = "push_header" -> PushHeaderProgram(r)
      [] r.op = "pop_header"  -> PopHeaderProgram(r, d)
      [] r.op = "push_block"  -> PushBlockProgram(r)
      [] r.op = "pop_block"   -> PopBlockProgram(r, d)

\* The leaves each writer commits once its leaf calls are done.
Commits(op) ==
    CASE op \in {"index_tx", "index_block"} -> {"addresses"}
      [] op = "store" -> {"transactions"}
      [] op \in {"invalidate", "candidate"} -> {}
      [] op \in {"push_header", "pop_header"} -> {"blocks"}
      [] OTHER -> {"addresses", "transactions", "blocks"}

\* What a writer does when a leaf call it checks reports failure: it calls
\* end_write() and returns operation_failed.
FailureEndsWrite(op) == TRUE

\* ---------------------------------------------------------------- actions
\* A thread is idle, inside a writer (verify, leaf, end, ret), or inside
\* create() or reorganize between two writers (back, pa_*, push_all, rret).

InBody(r) == r.pc \in {"verify", "leaf", "end"} \/ (r.pc = "ret" /\ r.k > 0)
InWrite(r) == r.pc \in {"leaf", "end"}

Frame == UNCHANGED <<closed, index_addresses, flush_each_write,
                     exclusive_lock, created, active, store_ok, life, mem>>

\* A return of store(tx, forks) with success is counted.
Counted(r, code) ==
    IF r.op = "store" /\ code = "success"
    THEN [store_ok EXCEPT ![r.x] = @ + 1] ELSE store_ok

\* A writer reaches `return code`: the value is fixed, the scoped locks are
\* still held.
Return(t, r, code, failed, out) ==
    th' = [th EXCEPT ![t] = [r EXCEPT !.pc = "ret", !.rc = code,
                                      !.failed = failed, !.out = out]]

\* A writer is entered: unique_lock lock(write_mutex_).
Enter(t, r) ==
    /\ UniqueLock(write_mutex)
    /\ write_mutex' = t
    /\ th' = [th EXCEPT ![t] = [r EXCEPT !.pc = "verify", !.k = 1, !.n = 0,
                                         !.out = NoHash, !.began = FALSE,
                                         !.failed = FALSE, !.committed = FALSE]]
    /\ Frame
    /\ UNCHANGED <<sentinel, flush_lock_mutex, db>>

\* A thread calls one of the public writers.
Call(t) ==
    /\ t \in active
    /\ ~closed
    /\ th[t].pc = "idle"
    /\ calls < MaxCalls
    /\ calls' = calls + 1
    /\ \E op \in Ops, b \in Blocks \cup {NoHash}, h \in Heights(db), x \in Txs,
          flag \in BOOLEAN, code \in Codes :
        /\ (b # NoHash) = TakesBlock(op)
        /\ TakesHeight(op) \/ h = 0
        /\ TakesTx(op) \/ x = 0
        /\ TakesFlag(op) \/ ~flag
        /\ TakesCode(op) \/ code = "success"
        /\ LET r == [IdleRec EXCEPT !.op = op, !.b = b, !.h = h, !.x = x,
                                    !.flag = flag, !.code = code]
           IN  IF EarlyReturn(op, flag, index_addresses)
               THEN /\ Return(t, r, "success", FALSE, NoHash)
                    /\ Frame
                    /\ UNCHANGED <<sentinel, write_mutex, flush_lock_mutex, db>>
               ELSE Enter(t, r)

\* A thread calls one of the public writers and finds itself at
\* unique_lock lock(write_mutex_), where it blocks until the mutex is free.
Wait(t) ==
    /\ t \in active
    /\ ~closed
    /\ th[t].pc = "idle"
    /\ calls < MaxCalls
    /\ calls' = calls + 1
    /\ \E op \in Ops, b \in Blocks \cup {NoHash}, h \in Heights(db), x \in Txs,
          flag \in BOOLEAN, code \in Codes :
        /\ (b # NoHash) = TakesBlock(op)
        /\ TakesHeight(op) \/ h = 0
        /\ TakesTx(op) \/ x = 0
        /\ TakesFlag(op) \/ ~flag
        /\ TakesCode(op) \/ code = "success"
        /\ LET r == [IdleRec EXCEPT !.op = op, !.b = b, !.h = h, !.x = x,
                                    !.flag = flag, !.code = code]
           IN  IF EarlyReturn(op, flag, index_addresses)
               THEN Return(t, r, "success", FALSE, NoHash)
               ELSE th' = [th EXCEPT ![t] = [r EXCEPT !.pc = "wait"]]
    /\ Frame
    /\ UNCHANGED <<sentinel, write_mutex, flush_lock_mutex, db>>

\* unique_lock lock(write_mutex_) returns to the blocked thread.
Acquire(t) ==
    /\ th[t].pc = "wait"
    /\ calls' = calls
    /\ Enter(t, th[t])

\* The precondition check, the flush lock and begin_write.
Verify(t) ==
    LET r == th[t]
        v == Precondition(r, db)
        result == GetAt(db, r.h, PopsCandidate(r.op))
        r1 == IF IsPop(r.op)
              THEN [r EXCEPT !.b = result, !.out = OutBlock(r.op, result)]
              ELSE r
    IN  /\ r.pc = "verify"
        /\ Frame
        /\ UNCHANGED <<db, write_mutex, calls>>
        /\ IF ReturnsOnError(r.op, v)
           THEN /\ Return(t, r, PreconditionReturn(r.op, v), FALSE, NoHash)
                /\ UNCHANGED <<sentinel, flush_lock_mutex>>
           ELSE IF IsPop(r.op) /\ result = NoHash
           THEN /\ Return(t, r, "operation_failed", FALSE, NoHash)
                /\ UNCHANGED <<sentinel, flush_lock_mutex>>
           ELSE /\ flush_each_write => flush_lock_mutex = NoThread
                /\ flush_lock_mutex' =
                       IF flush_each_write THEN t ELSE flush_lock_mutex
                /\ \E bw \in BeginWrite(sentinel, flush_each_write) :
                     /\ sentinel' = bw.sentinel
                     /\ IF ~bw.ok
                        THEN Return(t, r1, "store_lock_failure", FALSE, r1.out)
                        ELSE th' = [th EXCEPT ![t] =
                                 [r1 EXCEPT !.began = TRUE,
                                            !.committed = Len(Program(r1, db)) = 0,
                                            !.pc = IF Len(Program(r1, db)) = 0
                                                   THEN "end" ELSE "leaf"]]

\* One leaf call of the writer's body; after the last one, commit (and, in
\* pop_header, the assignment of out_header).
LeafStep(t) ==
    LET r == th[t]
        prog == Program(r, db)
        l == prog[r.k]
        last == r.k = Len(prog)
    IN  /\ r.pc = "leaf"
        /\ Frame
        /\ UNCHANGED <<write_mutex, flush_lock_mutex, calls>>
        /\ \E io \in BOOLEAN :
             LET ok == io /\ LeafCan(db, l) IN
             IF ~ok /\ l.checked
             THEN /\ db' = db
                  /\ IF FailureEndsWrite(r.op)
                     THEN \E e \in EndWrite(sentinel, flush_each_write) :
                            sentinel' = e.sentinel
                     ELSE sentinel' = sentinel
                  /\ Return(t, r, "operation_failed", TRUE, r.out)
             ELSE /\ db' = IF ok THEN LeafDo(db, l) ELSE db
                  /\ th' = [th EXCEPT ![t] =
                        [r EXCEPT !.pc = IF last THEN "end" ELSE "leaf",
                                  !.k = r.k + 1,
                                  !.n = IF ok THEN r.n + 1 ELSE r.n,
                                  !.committed = last,
                                  !.out = IF last /\ r.op = "pop_header"
                                          THEN r.b ELSE r.out]]
                  /\ UNCHANGED sentinel

\* end_write and the final return.
EndStep(t) ==
    LET r == th[t] IN
    /\ r.pc = "end"
    /\ UNCHANGED <<closed, index_addresses, flush_each_write, exclusive_lock,
                   created, active, db, write_mutex, flush_lock_mutex, calls,
                   life, mem>>
    /\ \E e \in EndWrite(sentinel, flush_each_write) :
         LET code == IF e.ok THEN "success" ELSE "store_lock_failure" IN
         /\ sentinel' = e.sentinel
         /\ store_ok' = Counted(r, code)
         /\ Return(t, r, code, FALSE, r.out)

\* A writer whose scope ends with its locks still held.
ExitKeepsLocks(t) ==
    /\ th[t].pc = "ret"
    /\ th' = [th EXCEPT ![t] = IdleRec]
    /\ Frame
    /\ UNCHANGED <<sentinel, db, calls, write_mutex, flush_lock_mutex>>

\* The writer's scope ends: the flush lock and the write mutex are released
\* and the code reaches the caller (the user, create() or a reorganize loop).
Exit(t) ==
    LET r == th[t] IN
    /\ r.pc = "ret"
    /\ write_mutex' = IF write_mutex = t THEN NoThread ELSE write_mutex
    /\ flush_lock_mutex' =
           IF flush_lock_mutex = t THEN NoThread ELSE flush_lock_mutex
    /\ th' = [th EXCEPT ![t] =
                 IF r.outer = "none" THEN IdleRec
                 ELSE [IdleRec EXCEPT !.pc = "back", !.rc = r.rc, !.out = r.out,
                                      !.outer = r.outer, !.cand = r.cand,
                                      !.fork = r.fork, !.inc = r.inc,
                                      !.outg = r.outg, !.lh = r.lh, !.i = r.i,
                                      !.snap = r.snap, !.stage = r.stage,
                                      !.inc0 = r.inc0, !.snap0 = r.snap0,
                                      !.pre = r.pre, !.outg0 = r.outg0]]
    /\ Frame
    /\ UNCHANGED <<sentinel, db, calls>>

\* create(genesis): lock the directory, create the files and the leaves,
\* then push(genesis) at height 0.
Create(t) ==
    /\ t \in active
    /\ closed
    /\ th[t].pc = "idle"
    /\ ~exclusive_lock
    /\ exclusive_lock' = TRUE
    /\ UNCHANGED <<closed, index_addresses, flush_each_write, sentinel,
                   flush_lock_mutex, db, active, calls, store_ok, mem>>
    /\ \E ok \in BOOLEAN :
         IF created \/ ~ok
         THEN UNCHANGED <<created, write_mutex, th, life>>
         ELSE /\ created' = TRUE
              /\ life' = Started(LeafOrder(index_addresses))
              /\ UniqueLock(write_mutex)
              /\ write_mutex' = t
              /\ th' = [th EXCEPT ![t] =
                    [IdleRec EXCEPT !.pc = "verify", !.op = "push", !.k = 1,
                                    !.b = Genesis, !.outer = "create"]]

\* create(genesis) after its push has returned.
CreateBack(t) ==
    /\ th[t].pc = "back"
    /\ th[t].outer = "create"
    /\ closed' = IF th[t].rc = "success" THEN FALSE ELSE closed
    /\ life' = [life EXCEPT !.opened = @ \/ th[t].rc = "success"]
    /\ th' = [th EXCEPT ![t] = IdleRec]
    /\ UNCHANGED <<index_addresses, flush_each_write, exclusive_lock, created,
                   sentinel, write_mutex, flush_lock_mutex, db, active, calls,
                   store_ok, mem>>

\* ------------------------------------------------------------ reorganize

Moves(t, r) ==
    /\ th' = [th EXCEPT ![t] = r]
    /\ Frame
    /\ UNCHANGED <<sentinel, write_mutex, flush_lock_mutex, db, calls>>

\* reorganize reaches its return.
ReorgReturn(t, code) == Moves(t, [th[t] EXCEPT !.pc = "rret", !.rc = code])

\* reorganize without its guard.
OverflowsNever(fork, incoming) == FALSE

\* reorganize's guard: fork_point.height() > max_size_t - incoming->size().
Overflows(fork, incoming) == fork.h > max_size_t - Len(incoming)

\* reorganize whose pop_above does not verify the fork point.
ReorganizeStartUnverified(q, d) ==
    IF Overflows(q.fork, q.inc)
    THEN [q EXCEPT !.pc = "rret", !.rc = "operation_failed"]
    ELSE [q EXCEPT !.pc = "pa_top", !.outg = <<>>]

\* The start of reorganize for the arguments in q: the guard, then pop_above
\* clears the outgoing list and verifies the fork point.
ReorganizeStart(q, d) ==
    IF Overflows(q.fork, q.inc)
    THEN [q EXCEPT !.pc = "rret", !.rc = "operation_failed"]
    ELSE IF VerifyFork(d, q.fork, q.cand) # "success"
    THEN [q EXCEPT !.pc = "rret", !.rc = "operation_failed", !.outg = <<>>]
    ELSE [q EXCEPT !.pc = "pa_top", !.outg = <<>>]

\* reorganize(fork_point, incoming, outgoing), headers (cand) or blocks; the
\* caller's outgoing list may hold entries, the fork height may be any size_t.
ReorganizeCall(t) ==
    /\ t \in active
    /\ ~closed
    /\ th[t].pc = "idle"
    /\ calls < MaxCalls
    /\ calls' = calls + 1
    /\ \E cand \in BOOLEAN, fb \in Blocks,
          fh \in Heights(db) \cup {max_size_t - 1, max_size_t},
          inc \in SeqsUpTo(Blocks, MaxIncoming),
          outg \in SeqsUpTo({Genesis}, 1) :
         th' = [th EXCEPT ![t] = ReorganizeStart(
                 [IdleRec EXCEPT !.outer = "reorganize", !.cand = cand,
                                 !.fork = [h |-> fh, b |-> fb], !.inc = inc,
                                 !.snap = Index(db, cand), !.pre = db,
                                 !.outg = outg,
                                 !.outg0 = outg], db)]
    /\ Frame
    /\ UNCHANGED <<sentinel, write_mutex, flush_lock_mutex, db>>

\* pop_above: blocks.top, depth = top - fork (size_t), reserve(depth).
\* With top below the fork height the subtraction wraps and reserve throws.
PaTop(t) ==
    LET r == th[t] IN
    /\ r.pc = "pa_top"
    /\ IF ~HasTop(db, r.cand)
       THEN ReorgReturn(t, "operation_failed")
       ELSE IF Top(db, r.cand) < r.fork.h
       THEN ReorgReturn(t, "length_error")
       ELSE IF Top(db, r.cand) = r.fork.h
       THEN Moves(t, [r EXCEPT !.pc = "push_all", !.lh = r.fork.h])
       ELSE Moves(t, [r EXCEPT !.pc = "pa_loop", !.lh = Top(db, r.cand)])

\* pop_above: pop_header / pop_block at the loop's height.
PaLoop(t) ==
    LET r == th[t] IN
    /\ r.pc = "pa_loop"
    /\ UNCHANGED calls
    /\ Enter(t, [r EXCEPT !.op = IF r.cand THEN "pop_header" ELSE "pop_block",
                          !.h = r.lh])

\* pop_above after a pop returned: fail, or prepend and go one height down.
PaBack(t) ==
    LET r == th[t] IN
    /\ r.pc = "back"
    /\ r.outer = "reorganize"
    /\ r.lh > r.fork.h
    /\ IF r.rc # "success"
       THEN ReorgReturn(t, "operation_failed")
       ELSE Moves(t, [r EXCEPT !.outg = <<r.out>> \o r.outg,
                               !.lh = r.lh - 1, !.out = NoHash,
                               !.pc = IF r.lh - 1 > r.fork.h THEN "pa_loop"
                                      ELSE "push_all"])

\* push_all: push_header / push_block of the next incoming entry at
\* first_height + index, or the end of the list.
PushAll(t) ==
    LET r == th[t] IN
    /\ r.pc = "push_all"
    /\ IF r.i < Len(r.inc)
       THEN \E exists \in BOOLEAN :
              /\ r.cand \/ ~exists
              /\ UNCHANGED calls
              /\ Enter(t, [r EXCEPT !.op = IF r.cand THEN "push_header"
                                           ELSE "push_block",
                                    !.b = r.inc[r.i + 1],
                                    !.h = (r.fork.h + 1 + r.i) % (max_size_t + 1),
                                    !.flag = exists])
       ELSE ReorgReturn(t, "success")

\* push_all after a push returned.
PushBack(t) ==
    LET r == th[t] IN
    /\ r.pc = "back"
    /\ r.outer = "reorganize"
    /\ r.lh = r.fork.h
    /\ IF r.rc # "success"
       THEN ReorgReturn(t, "operation_failed")
       ELSE Moves(t, [r EXCEPT !.i = r.i + 1, !.pc = "push_all"])

\* The caller has the result of reorganize.
ReorgExit(t) ==
    /\ th[t].pc = "rret"
    /\ Moves(t, IdleRec)

\* A caller that got success from reorganize(fork_point, incoming, outgoing)
\* calls reorganize(fork_point, outgoing, incoming2) next.
ReorgAgain(t) ==
    LET r == th[t]
        q == [IdleRec EXCEPT !.outer = "reorganize", !.cand = r.cand,
                             !.fork = r.fork, !.inc = r.outg,
                             !.snap = Index(db, r.cand), !.pre = db,
                             !.stage = 2,
                             !.inc0 = r.inc, !.snap0 = r.snap]
    IN  /\ r.pc = "rret"
        /\ r.rc = "success"
        /\ r.stage = 0
        /\ Moves(t, ReorganizeStart(q, db))

\* A caller pushes a header (push_header) or a block (push_block) and will
\* pop the same height next; pre is the store before the push.
PushThenPop(t) ==
    /\ t \in active
    /\ ~closed
    /\ th[t].pc = "idle"
    /\ calls < MaxCalls
    /\ calls' = calls + 1
    /\ \E cand \in BOOLEAN, b \in Blocks, h \in Heights(db), exists \in BOOLEAN :
         /\ cand \/ ~exists
         /\ Enter(t, [IdleRec EXCEPT !.op = IF cand THEN "push_header"
                                                  ELSE "push_block",
                                     !.b = b, !.h = h, !.flag = exists,
                                     !.outer = "trip", !.cand = cand,
                                     !.stage = 1, !.inc0 = <<b>>, !.lh = h,
                                     !.pre = db])

\* The caller of a push that returned success calls pop_header(out, height)
\* or pop_block(out, height) at the same height; after the pop, or after a
\* failed push, the caller is done.
PopAfterPush(t) ==
    LET r == th[t] IN
    /\ r.pc = "back"
    /\ r.outer = "trip"
    /\ IF r.stage = 1 /\ r.rc = "success"
       THEN /\ UNCHANGED calls
            /\ Enter(t, [r EXCEPT !.op = IF r.cand THEN "pop_header"
                                         ELSE "pop_block",
                                  !.h = r.lh, !.stage = 2])
       ELSE Moves(t, IdleRec)

\* ------------------------------------------------- open, close and flush

LifeFrame == UNCHANGED <<index_addresses, flush_each_write, created,
                         write_mutex, flush_lock_mutex, db, active, store_ok,
                         mem>>

\* A thread starts a call of open(), close() or flush().
LifeCall(t) ==
    /\ t \in active
    /\ th[t].pc = "idle"
    /\ calls < MaxCalls
    /\ calls' = calls + 1

\* A return of a close() that was called after the store was opened is
\* counted, with its result.
CloseReturned(l, r, result, io) ==
    IF ~r.began THEN l
    ELSE [l EXCEPT !.rets = @ + 1,
                   !.fails = IF result THEN @ ELSE @ + 1,
                   !.iofail = @ \/ ~io]

\* open() that goes on after store::open() failed.
ProceedsAlways(ok) == TRUE

\* open(): if (!store::open()) return false.
Proceeds(ok) == ok

\* open(): store::open(), and after its success start(). began: a close()
\* of the opened store had returned true before the call.
OpenCall(t) ==
    /\ LifeCall(t)
    /\ created
    /\ LifeFrame
    /\ UNCHANGED <<closed, sentinel>>
    /\ \E o \in StoreOpen(exclusive_lock, sentinel) :
         LET r == [IdleRec EXCEPT !.op = "open", !.rc = o.why, !.flag = o.ok,
                                  !.wasclosed = closed,
                                  !.began = life.opened /\ life.rets > life.fails]
         IN  /\ exclusive_lock' = o.lock
             /\ IF Proceeds(o.ok)
                THEN /\ life' = [NoLeaves EXCEPT !.started = TRUE]
                     /\ th' = [th EXCEPT ![t] = [r EXCEPT !.pc = "l_open", !.k = 1]]
                ELSE /\ life' = life
                     /\ th' = [th EXCEPT ![t] = [r EXCEPT !.pc = "lret"]]

\* open(): the next leaf's open(); a failure returns false.
OpenLeaf(t) ==
    LET r == th[t]
        order == LeafOrder(index_addresses)
    IN  /\ r.pc = "l_open"
        /\ LifeFrame
        /\ UNCHANGED <<closed, sentinel, exclusive_lock, calls>>
        /\ \E io \in BOOLEAN :
             IF io
             THEN /\ life' = [life EXCEPT !.open[order[r.k]] = TRUE]
                  /\ th' = [th EXCEPT ![t] =
                        [r EXCEPT !.k = r.k + 1,
                                  !.pc = IF r.k = Len(order) THEN "l_open_set"
                                         ELSE "l_open"]]
             ELSE /\ life' = life
                  /\ th' = [th EXCEPT ![t] = [r EXCEPT !.pc = "lret", !.flag = FALSE,
                                                       !.failed = TRUE]]

\* open(): closed_ = false; return opened.
OpenDone(t) ==
    /\ th[t].pc = "l_open_set"
    /\ LifeFrame
    /\ closed' = FALSE
    /\ life' = [life EXCEPT !.opened = TRUE]
    /\ th' = [th EXCEPT ![t].pc = "lret"]
    /\ UNCHANGED <<sentinel, exclusive_lock, calls>>

\* close() that closes the leaves in the reverse of the order of opening.
CloseOrderReversed(addresses) ==
    IF addresses THEN <<"addresses", "transactions", "blocks">>
    ELSE <<"transactions", "blocks">>

\* close(): blocks_->close() && transactions_->close(), then
\* addresses_->close() when addresses are indexed.
CloseOrder(addresses) == LeafOrder(addresses)

\* close(): if (closed_) return true.
CloseCall(t) ==
    /\ LifeCall(t)
    /\ LifeFrame
    /\ UNCHANGED <<closed, sentinel, exclusive_lock>>
    /\ LET r == [IdleRec EXCEPT !.op = "close", !.flag = TRUE, !.wasclosed = closed,
                                !.began = life.opened]
       IN  IF closed
           THEN /\ th' = [th EXCEPT ![t] = [r EXCEPT !.pc = "lret"]]
                /\ life' = CloseReturned(life, r, TRUE, TRUE)
           ELSE /\ th' = [th EXCEPT ![t] = [r EXCEPT !.pc = "l_close_set"]]
                /\ life' = life

\* close(): closed_ = true.
CloseSet(t) ==
    /\ th[t].pc = "l_close_set"
    /\ LifeFrame
    /\ closed' = TRUE
    /\ th' = [th EXCEPT ![t] = [@ EXCEPT !.pc = "l_close", !.k = 1,
                                         !.log = Append(@, "closed_")]]
    /\ UNCHANGED <<sentinel, exclusive_lock, calls, life>>

\* close(): the next leaf's close(); a failure returns false without
\* store::close().
CloseLeaf(t) ==
    LET r == th[t]
        order == CloseOrder(index_addresses)
        l == order[r.k]
    IN  /\ r.pc = "l_close"
        /\ LifeFrame
        /\ UNCHANGED <<closed, sentinel, exclusive_lock, calls>>
        /\ \E io \in BOOLEAN :
             LET called == [life EXCEPT !.closes[l] = @ + 1,
                                        !.open[l] = IF io THEN FALSE ELSE @]
             IN  IF io
                 THEN /\ life' = called
                      /\ th' = [th EXCEPT ![t] =
                            [r EXCEPT !.k = r.k + 1,
                                      !.log = Append(@, l),
                                      !.pc = IF r.k = Len(order) THEN "l_store_close"
                                             ELSE "l_close"]]
                 ELSE /\ life' = CloseReturned(called, r, FALSE, FALSE)
                      /\ th' = [th EXCEPT ![t] = [r EXCEPT !.pc = "lret",
                                                           !.log = Append(@, l),
                                                           !.flag = FALSE,
                                                           !.failed = TRUE]]

\* close(): return closed && store::close().
CloseStore(t) ==
    LET r == th[t] IN
    /\ r.pc = "l_store_close"
    /\ LifeFrame
    /\ UNCHANGED <<closed, calls>>
    /\ \E c \in StoreClose(sentinel, flush_each_write) :
         /\ exclusive_lock' = c.lock
         /\ sentinel' = c.sentinel
         /\ life' = CloseReturned(life, r, c.ok, c.ok)
         /\ th' = [th EXCEPT ![t] = [r EXCEPT !.pc = "lret", !.flag = c.ok,
                                              !.log = Append(@, "store"),
                                              !.failed = ~c.ok]]

\* flush() that returns true at once when closed_ is set.
FlushSkippedWhenClosed(c) == c

\* flush(): the test of closed_ is commented out.
FlushSkipped(c) == FALSE

\* flush() is called, by end_write or by a caller, once the leaves exist.
FlushCall(t) ==
    /\ LifeCall(t)
    /\ life.started
    /\ LifeFrame
    /\ UNCHANGED <<closed, sentinel, exclusive_lock, life>>
    /\ LET r == [IdleRec EXCEPT !.op = "flush", !.flag = TRUE, !.wasclosed = closed]
       IN  th' = [th EXCEPT ![t] =
                 IF FlushSkipped(closed) THEN [r EXCEPT !.pc = "lret"]
                 ELSE [r EXCEPT !.pc = "l_flush", !.k = 1]]

\* flush(): the next leaf's flush(); a failure ends the && chain.
FlushLeaf(t) ==
    LET r == th[t]
        order == LeafOrder(index_addresses)
    IN  /\ r.pc = "l_flush"
        /\ LifeFrame
        /\ UNCHANGED <<closed, sentinel, exclusive_lock, calls, life>>
        /\ \E io \in BOOLEAN :
             th' = [th EXCEPT ![t] =
                 [r EXCEPT !.log = Append(r.log, order[r.k]),
                           !.k = r.k + 1,
                           !.flag = io,
                           !.failed = ~io,
                           !.pc = IF io /\ r.k < Len(order) THEN "l_flush"
                                  ELSE "lret"]]

\* open(), close() or flush() has returned to its caller.
LifeExit(t) ==
    /\ th[t].pc = "lret"
    /\ LifeFrame
    /\ th' = [th EXCEPT ![t] = IdleRec]
    /\ UNCHANGED <<closed, sentinel, exclusive_lock, calls, life>>

\* ------------------------------------------------ accessors and the remap

StoreVars == <<closed, index_addresses, flush_each_write, exclusive_lock,
               created, sentinel, write_mutex, flush_lock_mutex, db, th, active,
               calls, store_ok, life>>

\* An accessor is constructed once lock_upgrade() returns.
AccessorConstruct(a) ==
    /\ mem.acc[a] = "none"
    /\ CanLockUpgrade(mem.mutex)
    /\ mem' = [mem EXCEPT !.mutex = Construct(@), !.acc[a] = "constructed"]
    /\ UNCHANGED StoreVars

\* The constructed accessor is assigned the map's buffer.
AccessorAssign(a) ==
    /\ mem.acc[a] = "constructed"
    /\ mem' = [mem EXCEPT !.mutex = Assign(@), !.acc[a] = "assigned",
                          !.assigns[a] = @ + 1]
    /\ UNCHANGED StoreVars

\* The assigned accessor is destroyed.
AccessorDestroy(a) ==
    /\ mem.acc[a] = "assigned"
    /\ mem' = [mem EXCEPT !.mutex = Destroy(@), !.acc[a] = "gone"]
    /\ UNCHANGED StoreVars

\* assign is called on an accessor that was assigned before.
AccessorAssignAgain(a) ==
    /\ mem.acc[a] = "assigned"
    /\ mem.assigns[a] < MaxAssigns
    /\ \E m \in AssignAgain(mem.mutex) :
         mem' = [mem EXCEPT !.mutex = m, !.assigns[a] = @ + 1]
    /\ UNCHANGED StoreVars

\* An accessor is destroyed that was never assigned.
AccessorDestroyUnassigned(a) ==
    /\ mem.acc[a] = "constructed"
    /\ \E m \in DestroyUnassigned(mem.mutex) :
         mem' = [mem EXCEPT !.mutex = m, !.acc[a] = "gone"]
    /\ UNCHANGED StoreVars

\* The remapping thread takes the upgrade lock.
RemapBegin ==
    /\ mem.remap = "idle"
    /\ mem.remaps < MaxRemaps
    /\ CanLockUpgrade(mem.mutex)
    /\ mem' = [mem EXCEPT !.mutex = LockUpgrade(@), !.remap = "upgrade",
                          !.remaps = @ + 1]
    /\ UNCHANGED StoreVars

\* The remapping thread upgrades to exclusive once it is the only owner.
RemapExclusive ==
    /\ mem.remap = "upgrade"
    /\ CanUpgradeToExclusive(mem.mutex)
    /\ mem' = [mem EXCEPT !.mutex = UnlockUpgradeAndLock(@), !.remap = "exclusive"]
    /\ UNCHANGED StoreVars

\* The file is remapped; the thread downgrades to the upgrade lock.
RemapDone ==
    /\ mem.remap = "exclusive"
    /\ mem' = [mem EXCEPT !.mutex = UnlockAndLockUpgrade(@), !.remap = "remapped"]
    /\ UNCHANGED StoreVars

\* The remapping thread releases the upgrade lock.
RemapEnd ==
    /\ mem.remap = "remapped"
    /\ mem' = [mem EXCEPT !.mutex = UnlockUpgrade(@), !.remap = "idle"]
    /\ UNCHANGED StoreVars

\* ----------------------------------------------------------- specification

InitCommon ==
    /\ closed = TRUE
    /\ exclusive_lock = FALSE
    /\ created = FALSE
    /\ sentinel = FALSE
    /\ write_mutex = NoThread
    /\ flush_lock_mutex = NoThread
    /\ db = EmptyDb
    /\ th = [t \in Threads |-> IdleRec]
    /\ calls = 0
    /\ store_ok = [x \in Txs |-> 0]
    /\ life = NoLeaves
    /\ mem = NoAccessors

\* Two calling threads, address indexing and per-write flushing configured.
Init ==
    /\ InitCommon
    /\ index_addresses = TRUE
    /\ flush_each_write = TRUE
    /\ active = Threads

\* One calling thread, any settings.
InitSeq ==
    /\ InitCommon
    /\ index_addresses \in BOOLEAN
    /\ flush_each_write \in BOOLEAN
    /\ active = {"t1"}

Next ==
    \E t \in Threads :
        \/ Create(t)
        \/ CreateBack(t)
        \/ Call(t)
        \/ Verify(t)
        \/ LeafStep(t)
        \/ EndStep(t)
        \/ Exit(t)
        \/ ReorganizeCall(t)
        \/ PaTop(t)
        \/ PaLoop(t)
        \/ PaBack(t)
        \/ PushAll(t)
        \/ PushBack(t)
        \/ ReorgExit(t)

\* Two threads call into the store.
Spec == Init /\ [][Next]_vars

\* One thread calls into the store.
SpecSeq == InitSeq /\ [][Next]_vars

\* One thread calls into the store and follows a call by its inverse.
NextTrip ==
    \/ Next
    \/ \E t \in Threads :
         \/ ReorgAgain(t)
         \/ PushThenPop(t)
         \/ PopAfterPush(t)

SpecTrip == InitSeq /\ [][NextTrip]_vars

RECURSIVE Applied(_, _)
\* The leaf stores after the leaf calls of prog, all successful.
Applied(d, prog) ==
    IF prog = <<>> THEN d ELSE Applied(LeafDo(d, Head(prog)), Tail(prog))

\* The leaf stores that a create(genesis) of an earlier run left on disk.
GenesisDb ==
    Applied(EmptyDb, PushProgram([IdleRec EXCEPT !.op = "push", !.b = Genesis]))

\* Two threads; the directory is new, or an earlier run created it and
\* ended with or without its flush lock file removed.
InitLife ==
    /\ closed = TRUE
    /\ exclusive_lock = FALSE
    /\ created \in BOOLEAN
    /\ sentinel \in BOOLEAN
    /\ created \/ ~sentinel
    /\ db = IF created THEN GenesisDb ELSE EmptyDb
    /\ write_mutex = NoThread
    /\ flush_lock_mutex = NoThread
    /\ th = [t \in Threads |-> IdleRec]
    /\ calls = 0
    /\ store_ok = [x \in Txs |-> 0]
    /\ life = NoLeaves
    /\ mem = NoAccessors
    /\ index_addresses \in BOOLEAN
    /\ flush_each_write \in BOOLEAN
    /\ active = Threads

\* The writers and create, with open, close and flush.
NextLife ==
    \E t \in Threads :
        \/ Create(t)
        \/ CreateBack(t)
        \/ Call(t)
        \/ Verify(t)
        \/ LeafStep(t)
        \/ EndStep(t)
        \/ Exit(t)
        \/ OpenCall(t)
        \/ OpenLeaf(t)
        \/ OpenDone(t)
        \/ CloseCall(t)
        \/ CloseSet(t)
        \/ CloseLeaf(t)
        \/ CloseStore(t)
        \/ FlushCall(t)
        \/ FlushLeaf(t)
        \/ LifeExit(t)

\* Two threads write, open, close and flush.
SpecLife == InitLife /\ [][NextLife]_vars

\* The writers, each call blocking at the write mutex until it is free.
NextFair ==
    \E t \in Threads :
        \/ Create(t)
        \/ CreateBack(t)
        \/ Wait(t)
        \/ Acquire(t)
        \/ Verify(t)
        \/ LeafStep(t)
        \/ EndStep(t)
        \/ Exit(t)

\* A thread inside a writer keeps running (the leaf calls terminate), and a
\* thread blocked at the write mutex that can take it again and again does
\* take it.
Fairness ==
    \A t \in Threads :
        /\ WF_vars(Verify(t) \/ LeafStep(t) \/ EndStep(t) \/ Exit(t) \/ CreateBack(t))
        /\ SF_vars(Acquire(t))

\* Two threads write under fair scheduling.
SpecFair == Init /\ [][NextFair]_vars /\ Fairness

\* The leaf stores after create(genesis) and push_header(H1, 1).
ChainDb ==
    Applied(GenesisDb,
            PushHeaderProgram([IdleRec EXCEPT !.op = "push_header", !.b = 1,
                                              !.h = 1]))

\* Two calling threads on an open store whose candidate index is [G, H1].
InitChain ==
    /\ closed = FALSE
    /\ exclusive_lock = TRUE
    /\ created = TRUE
    /\ sentinel = FALSE
    /\ write_mutex = NoThread
    /\ flush_lock_mutex = NoThread
    /\ db = ChainDb
    /\ th = [t \in Threads |-> IdleRec]
    /\ calls = 0
    /\ store_ok = [x \in Txs |-> 0]
    /\ life = [Started(LeafOrder(TRUE)) EXCEPT !.opened = TRUE]
    /\ mem = NoAccessors
    /\ index_addresses = TRUE
    /\ flush_each_write = TRUE
    /\ active = Threads

\* The writers and reorganize on the open store.
NextChain ==
    \E t \in Threads :
        \/ Call(t)
        \/ Verify(t)
        \/ LeafStep(t)
        \/ EndStep(t)
        \/ Exit(t)
        \/ ReorganizeCall(t)
        \/ PaTop(t)
        \/ PaLoop(t)
        \/ PaBack(t)
        \/ PushAll(t)
        \/ PushBack(t)
        \/ ReorgExit(t)

\* Two threads write to and reorganize a store that holds a header above
\* genesis.
SpecChain == InitChain /\ [][NextChain]_vars

\* Accessors onto a memory map are made, assigned and destroyed while a
\* thread remaps it.
NextAccessor ==
    \/ \E a \in Accessors :
         \/ AccessorConstruct(a)
         \/ AccessorAssign(a)
         \/ AccessorDestroy(a)
    \/ RemapBegin
    \/ RemapExclusive
    \/ RemapDone
    \/ RemapEnd

SpecAccessor == Init /\ [][NextAccessor]_vars

\* Accessors with any lifetime: assign may be left out or repeated.
NextLifetime ==
    \/ NextAccessor
    \/ \E a \in Accessors :
         \/ AccessorAssignAgain(a)
         \/ AccessorDestroyUnassigned(a)

SpecLifetime == Init /\ [][NextLifetime]_vars

\* ------------------------------------------------------------- properties

\* A writer has completed: it committed and returns success. With one
\* calling thread the stored state is that of the quiescent point that follows.
Completed(r) == r.pc = "ret" /\ r.committed /\ r.rc = "success"

\* s is a prefix of q.
IsPrefix(s, q) == Len(s) <= Len(q) /\ \A i \in 1 .. Len(s) : s[i] = q[i]

\* The index starts at the genesis header and each entry's previous-block
\* hash is the entry one height below.
Chained(idx) ==
    /\ Len(idx) > 0 => idx[1] = Genesis
    /\ \A i \in 2 .. Len(idx) : Prev(idx[i]) = idx[i - 1]

C2_FailedWriteKeepsSentinel ==
    \A t \in Threads :
        (flush_each_write /\ th[t].pc = "ret" /\ th[t].failed)
            => (th[t].rc = "operation_failed" /\ sentinel)

\* C3: with per-write flushing, the sentinel is present while a write is
\* between begin_write and end_write, present in every state a failed write
\* left partially mutated, and absent when no write has begun.
C3_SentinelIffWriteInFlight ==
    flush_each_write =>
        /\ \A t \in Threads : InWrite(th[t]) => sentinel
        /\ \A t \in Threads :
               (th[t].pc = "ret" /\ th[t].failed /\ th[t].n > 0) => sentinel
        /\ (\A t \in Threads : ~th[t].began) => ~sentinel

\* C4: a writer whose precondition check fails, or whose begin_write fails,
\* returns without a leaf mutation or commit, with the sentinel and the
\* stored state exactly as they were when it was entered.
C4_FailedPreconditionNoEffect ==
    [][\A t \in Threads :
          LET r == th[t]
              q == th'[t]
              untouched == /\ db' = db
                           /\ sentinel' = sentinel
                           /\ store_ok' = store_ok
          IN  /\ (q.pc = "verify" /\ r.pc # "verify") => untouched
              /\ (r.pc = "verify" /\ q # r /\ Precondition(r, db) # "success")
                    => /\ untouched
                       /\ q.pc = "ret"
                       /\ ~q.began /\ q.n = 0 /\ ~q.committed
              /\ (r.pc = "verify" /\ q.pc = "ret")
                    => /\ untouched
                       /\ ~q.began /\ q.n = 0 /\ ~q.committed
      ]_vars

\* A store of a transaction already stored has returned
\* duplicate_transaction, and a writer has returned store_lock_failure
\* from begin_write.
C4_Witness ==
    \E t \in Threads :
        /\ th[t].pc = "ret"
        /\ th[t].k > 0
        /\ ~th[t].began
        /\ th[t].op = "store"
        /\ th[t].rc = "duplicate_transaction"
        /\ TxStored(db, th[t].x)

\* C5: pop_header returns success only after it popped the header: with a
\* height that is not the candidate top it returns verify_top's error.
C5_PopHeaderSuccessMeansPopped ==
    \A t \in Threads :
        (th[t].pc = "ret" /\ th[t].op = "pop_header" /\ th[t].rc = "success")
            => /\ th[t].committed
               /\ th[t].out # NoHash
               /\ ~(HasTop(db, TRUE) /\ Top(db, TRUE) >= th[t].h)

\* C6 as stated: a store call for a hash already in the store returns
\* duplicate_transaction and stores nothing; a store call for a hash not in
\* the store is the one that succeeds, so that among the store calls for a
\* hash exactly one has succeeded and exactly one record of it exists.
C6_ExactlyOneStoreSucceeds ==
    \A t \in Threads :
        LET r == th[t]
            present == ~r.began /\ TxStored(db, r.x)
        IN  (r.pc = "ret" /\ r.op = "store") =>
                /\ present => (r.rc = "duplicate_transaction" /\ r.n = 0)
                /\ ~present => /\ r.rc = "success"
                               /\ store_ok[r.x] = 1
                               /\ db.tx[r.x].recs = 1

\* C6 amended: at most one store call per hash succeeds and at most one
\* record per hash exists; a store that returns success leaves exactly one
\* record; a store that returns duplicate_transaction wrote nothing and the
\* record is present; a store that got past verify_missing follows no
\* successful store of the hash.
C6_AtMostOneStoreSucceeds ==
    /\ \A x \in Txs : store_ok[x] <= 1 /\ db.tx[x].recs <= 1
    /\ \A x \in Txs : store_ok[x] = 1 => db.tx[x].recs = 1
    /\ \A t \in Threads :
         LET r == th[t] IN
         (r.pc = "ret" /\ r.op = "store") =>
            /\ r.rc = "success" => (db.tx[r.x].recs = 1 /\ store_ok[r.x] = 1)
            /\ r.rc = "duplicate_transaction"
                  => (db.tx[r.x].recs = 1 /\ r.n = 0 /\ ~r.began)
            /\ r.began => store_ok[r.x] = (IF r.rc = "success" THEN 1 ELSE 0)

\* A store of a hash has succeeded and a later store of the same hash has
\* returned duplicate_transaction.
C6_Witness ==
    \E t \in Threads :
        /\ th[t].pc = "ret"
        /\ th[t].op = "store"
        /\ th[t].rc = "duplicate_transaction"
        /\ store_ok[th[t].x] = 1

C8_ConfirmedPrefixOfCandidate ==
    \A t \in Threads :
        Completed(th[t]) => IsPrefix(db.confirmed, db.candidate)

\* C9: when an operation has completed, both indices run gap-free from the
\* genesis header with every entry's previous-block hash equal to the entry
\* below it; push_header returns success only for height candidate_top + 1
\* and a header whose parent is the candidate top.
C9_IndicesChained ==
    /\ \A t \in Threads :
         Completed(th[t]) => (Chained(db.candidate) /\ Chained(db.confirmed))
    /\ \A t \in Threads :
         LET r == th[t] IN
         (r.pc = "ret" /\ r.op = "push_header" /\ r.rc = "success") =>
            /\ r.h > 0
            /\ GetAt(db, r.h - 1, TRUE) = Prev(r.b)
            /\ HasTop(db, TRUE) /\ Top(db, TRUE) \in {r.h - 1, r.h}

\* C10: when reorganize(fork_point {f, hf}, incoming) returns success, the
\* outgoing list is the former entries f+1 .. t in ascending height, the top
\* is f + n, the entries f+1 .. f+n are the incoming items in order and the
\* entries 0 .. f are unchanged.
C10_ReorganizeSuccess ==
    \A t \in Threads :
        LET r == th[t]
            f == r.fork.h
            n == Len(r.inc)
            idx == Index(db, r.cand)
        IN  (r.pc = "rret" /\ r.rc = "success") =>
                /\ Len(r.snap) >= f + 1
                /\ r.outg = SubSeq(r.snap, f + 2, Len(r.snap))
                /\ Len(idx) = f + 1 + n
                /\ SubSeq(idx, f + 2, f + 1 + n) = r.inc
                /\ SubSeq(idx, 1, f + 1) = SubSeq(r.snap, 1, f + 1)

\* C11: when reorganize(fork, incoming, outgoing) and the reorganize(fork,
\* outgoing, incoming2) that follows it both return success, incoming2 is
\* incoming and the index is the one before the first call.
C11_ReorganizeRoundTrip ==
    \A t \in Threads :
        LET r == th[t] IN
        (r.pc = "rret" /\ r.stage = 2 /\ r.rc = "success") =>
            /\ r.outg = r.inc0
            /\ Index(db, r.cand) = r.snap0

\* C12: when push_header(H, h) returned success and the pop_header(out, h)
\* that follows it returns success, the stored header records and the
\* candidate and confirmed indexes are those before the push, and out is H.
C12_PushPopHeaderRoundTrip ==
    \A t \in Threads :
        LET r == th[t] IN
        (r.pc = "ret" /\ r.outer = "trip" /\ r.stage = 2
            /\ r.op = "pop_header" /\ r.rc = "success") =>
            /\ db.hdr = r.pre.hdr
            /\ db.candidate = r.pre.candidate
            /\ db.confirmed = r.pre.confirmed
            /\ r.out = r.inc0[1]

\* The pop_block that follows a successful push_block(B, h) has returned
\* success.
BlockTripDone(r) ==
    /\ r.pc = "ret"
    /\ r.outer = "trip"
    /\ r.stage = 2
    /\ r.op = "pop_block"
    /\ r.rc = "success"

\* The confirmed index and every transaction's confirmation tuple are those
\* before the push, and out is B.
BlockTripRestored(r) ==
    /\ db.confirmed = r.pre.confirmed
    /\ \A x \in Txs : db.tx[x].conf = r.pre.tx[x].conf
    /\ r.out = r.inc0[1]

BlockTripClean(r) ==
    LET B == r.inc0[1] IN
    /\ r.pre.hdr[B].txs
    /\ \A x \in Range(TxsOf(B)) : r.pre.tx[x].conf = NoConf

C14_OverflowGuard ==
    [][\A t \in Threads :
        LET r == th'[t] IN
        /\ (th[t].pc = "idle" /\ r.outer = "reorganize"
                /\ r.fork.h + Len(r.inc) > max_size_t) =>
              /\ r.pc = "rret"
              /\ r.rc = "operation_failed"
              /\ r.outg = r.outg0
              /\ db' = db
              /\ sentinel' = sentinel
        /\ (r.outer = "reorganize" /\ r.pc \in {"pa_top", "pa_loop", "push_all"}) =>
              \A i \in 0 .. Len(r.inc) - 1 : r.fork.h + 1 + i <= max_size_t
        /\ (r.outer = "reorganize" /\ r.op \in {"push_header", "push_block"}) =>
              r.h = r.fork.h + 1 + r.i]_vars

\* reorganize was called with a fork height and an incoming list whose sum
\* exceeds max_size_t and a non-empty outgoing list, and has returned.
C14_Witness ==
    \E t \in Threads :
        /\ th[t].pc = "rret"
        /\ th[t].fork.h + Len(th[t].inc) > max_size_t
        /\ th[t].outg0 # <<>>
        /\ th[t].rc = "operation_failed"

\* The fork point is not on the index: its height is above the top, or the
\* entry at its height has another hash.
OffIndex(d, fork, cand) ==
    \/ ~HasTop(d, cand)
    \/ fork.h > Top(d, cand)
    \/ GetAt(d, fork.h, cand) # fork.b

\* C15: a reorganize whose fork point is above the top of the target index,
\* or has another hash than the index entry at its height, returns a
\* non-success code without any pop or push (the leaf stores are unchanged)
\* and without writing the sentinel.
C15_BadForkPointFails ==
    [][\A t \in Threads :
        LET r == th'[t] IN
        (th[t].pc = "idle" /\ r.outer = "reorganize"
            /\ OffIndex(db, r.fork, r.cand)) =>
              /\ r.pc = "rret"
              /\ r.rc # "success"
              /\ db' = db
              /\ sentinel' = sentinel
              /\ write_mutex' = write_mutex]_vars

\* reorganize has returned for a fork point within the index whose hash is
\* not the one the index has at that height.
C15_Witness ==
    \E t \in Threads :
        LET r == th[t] IN
        /\ r.pc = "rret"
        /\ r.outer = "reorganize"
        /\ r.stage = 0
        /\ r.i = 0
        /\ Index(db, r.cand) = r.snap
        /\ HasTop(db, r.cand)
        /\ r.fork.h <= Top(db, r.cand)
        /\ GetAt(db, r.fork.h, r.cand) # r.fork.b
        /\ r.rc = "operation_failed"

\* C20: no step of invalidate(header, code) changes the candidate index, the
\* confirmed index (hence either top), any transaction's state, or anything
\* of a header record but the verdict of the header it was called for; when
\* it returns success the verdict recorded for that header is code.
C20_InvalidateOnlyVerdict ==
    [][\A t \in Threads :
        LET r == th'[t] IN
        /\ (th[t].op = "invalidate" /\ r.op = "invalidate") =>
              /\ db'.candidate = db.candidate
              /\ db'.confirmed = db.confirmed
              /\ db'.tx = db.tx
              /\ db'.addr = db.addr
              /\ \A b \in Blocks :
                    /\ db'.hdr[b].stored = db.hdr[b].stored
                    /\ db'.hdr[b].txs = db.hdr[b].txs
                    /\ b # r.b => db'.hdr[b].state = db.hdr[b].state
        /\ (r.op = "invalidate" /\ r.pc = "ret" /\ r.rc = "success") =>
              db'.hdr[r.b].state =
                  IF r.code = "success" THEN "valid" ELSE "failed"]_vars

\* invalidate has returned success for a confirmed header and an error code.
C20_Witness ==
    \E t \in Threads :
        LET r == th[t] IN
        /\ r.op = "invalidate"
        /\ r.pc = "ret"
        /\ r.rc = "success"
        /\ r.code # "success"
        /\ r.b \in Range(db.confirmed)
        /\ db.hdr[r.b].state = "failed"

\* C16: after a successful open or create, once two or more close() calls
\* have returned and no leaf or store close failed, every one of them
\* returned true and close was invoked exactly once on each leaf.
C16_CloseIdempotent ==
    (life.opened /\ life.rets >= 2 /\ ~life.iofail) =>
        /\ life.fails = 0
        /\ \A l \in Range(LeafOrder(index_addresses)) : life.closes[l] = 1

\* C17: no step invokes close on a leaf while a writer holds write_mutex_.
C17_CloseWaitsForWriter ==
    [][\A l \in Leaves :
        life'.closes[l] > life.closes[l] => write_mutex = NoThread]_vars

\* flush() has returned to thread t.
FlushReturned(t) == th[t].op = "flush" /\ th[t].pc = "lret"

\* C18 as stated: a flush() that has returned, with closed_ set or not,
\* invoked flush on every leaf, in the order blocks, transactions, addresses
\* (addresses with indexing only), and returned whether all succeeded.
C18_FlushEveryLeaf ==
    \A t \in Threads :
        FlushReturned(t) =>
            /\ th[t].log = LeafOrder(index_addresses)
            /\ th[t].flag = ~th[t].failed

\* C18 amended: a flush() that has returned, with closed_ set or not,
\* invoked flush on the leaves in the order blocks, transactions, addresses
\* (addresses with indexing only) up to the first one that failed, on all of
\* them if none failed, and returned true exactly if none failed.
C18_FlushUntilFailure ==
    \A t \in Threads :
        FlushReturned(t) =>
            /\ th[t].log # <<>>
            /\ IsPrefix(th[t].log, LeafOrder(index_addresses))
            /\ ~th[t].failed => th[t].log = LeafOrder(index_addresses)
            /\ th[t].flag = ~th[t].failed

\* A flush() called while closed_ was set has flushed every leaf, with
\* address indexing enabled, and returned true.
C18_Witness ==
    \E t \in Threads :
        /\ FlushReturned(t)
        /\ th[t].wasclosed
        /\ index_addresses
        /\ th[t].log = <<"blocks", "transactions", "addresses">>
        /\ th[t].flag

\* open() has returned to thread t.
OpenReturned(t) == th[t].op = "open" /\ th[t].pc = "lret"

C19_WitnessSentinel ==
    \E t \in Threads :
        /\ OpenReturned(t)
        /\ th[t].rc = "sentinel"
        /\ ~th[t].flag
        /\ closed

\* The header b or a header descending from it.
Descends(c, b) == c = b \/ (c # Genesis /\ Prev(c) = b) \/
                  (c # Genesis /\ Prev(c) # Genesis /\ Prev(Prev(c)) = b)

\* C21: no step takes a header that is recorded as failed to valid, marks one
\* of its transactions candidate, or adds the header or a header descending
\* from it to the candidate or the confirmed index.
C21_FailedIsFinal ==
    [][\A b \in Blocks :
        db.hdr[b].state = "failed" =>
            /\ db'.hdr[b].state = "failed"
            /\ \A x \in Range(TxsOf(b)) : db'.tx[x].cand => db.tx[x].cand
            /\ \A c \in Blocks : Descends(c, b) =>
                  /\ c \in Range(db'.candidate) => c \in Range(db.candidate)
                  /\ c \in Range(db'.confirmed) => c \in Range(db.confirmed)]_vars

\* An accessor that was constructed and is not yet destroyed.
Live(a) == mem.acc[a] \in {"constructed", "assigned"}

\* C22: a constructed accessor owns the upgrade lock, an assigned one a share;
\* the mutex is never owned exclusively while an accessor is live; and with
\* every accessor destroyed and no remap under way the mutex is free.
C22_AccessorLockProtocol ==
    /\ \A a \in Accessors : mem.acc[a] = "constructed" => mem.mutex.upgrade
    /\ mem.mutex.shared >= Cardinality({a \in Accessors : Live(a)})
    /\ mem.mutex.exclusive => \A a \in Accessors : ~Live(a)
    /\ mem.remap = "exclusive" => \A a \in Accessors : ~Live(a)
    /\ ((\A a \in Accessors : ~Live(a)) /\ mem.remap = "idle") =>
            mem.mutex = FreeMutex

\* An accessor was destroyed, another is still assigned, and the remapping
\* thread waits with the upgrade lock.
C22_Witness ==
    /\ \E a \in Accessors : mem.acc[a] = "gone"
    /\ \E a \in Accessors : mem.acc[a] = "assigned"
    /\ mem.remap = "upgrade"

\* No thread is inside a call.
Quiescent == \A t \in Threads : th[t].pc = "idle"

\* C23: whenever no call is under way the exclusive lock on the data
\* directory is held exactly when the instance is open (closed_ is false).
C23_LockHeldIffOpen == Quiescent => (exclusive_lock <=> ~closed)

\* Thread t takes a step inside push's leaf calls.
PushStep(t) == th[t].op = "push" /\ th[t].pc = "leaf" /\ th'[t] # th[t]

\* The leaf call of that step reported failure or did nothing.
PushStepFailed(t) == th'[t].n = th[t].n

\* The step of push that each part of the store is written in.
PushStepOf(t) ==
    LET r == th[t] IN
    /\ db'.hdr[r.b].stored # db.hdr[r.b].stored => r.k = 1
    /\ db'.candidate # db.candidate => r.k = 2
    /\ (\E x \in Txs : db'.tx[x].recs # db.tx[x].recs) => r.k = 3
    /\ db'.hdr[r.b].txs # db.hdr[r.b].txs => r.k = 4
    /\ (\E x \in Txs : db'.tx[x].conf # db.tx[x].conf) => r.k = 5
    /\ db'.hdr[r.b].state # db.hdr[r.b].state => r.k = 6
    /\ db'.confirmed # db.confirmed =>
          /\ r.k = 7
          /\ db'.confirmed = Append(db.confirmed, r.b)
          /\ r.h < Len(db.candidate) /\ db.candidate[r.h + 1] = r.b
          /\ \A x \in Range(TxsOf(r.b)) :
                db.tx[x].conf = <<r.h, Mtp(r.b), PositionIn(TxsOf(r.b), x)>>
    /\ th'[t].pc = "end" => (r.k = 7 /\ th'[t].committed)

C25_LeafFailureFails ==
    [][\A t \in Threads :
         (th[t].pc = "leaf" /\ th'[t] # th[t] /\ th'[t].n = th[t].n) =>
             /\ db' = db
             /\ th'[t].pc = "ret"
             /\ th'[t].rc = "operation_failed"
             /\ ~th'[t].committed]_vars

\* C26: push_block goes past its precondition only with the header at height
\* on the candidate index and the confirmed top at height - 1; it never
\* changes the candidate index; and when it returns success transaction i of
\* the block is confirmed at (height, mtp, i) and the header is the top of
\* the confirmed index, at height.
C26_PushBlock ==
    [][\A t \in Threads :
         LET r == th[t] IN
         r.op = "push_block" =>
             /\ (r.pc = "verify" /\ th'[t].pc = "leaf") =>
                   /\ GetAt(db, r.h, TRUE) = r.b
                   /\ Len(db.confirmed) = r.h
             /\ r.pc \in {"verify", "leaf", "end", "ret"} =>
                   db'.candidate = db.candidate
             /\ (r.pc = "ret" /\ r.rc = "success") =>
                   /\ GetAt(db, r.h, TRUE) = r.b
                   /\ db.confirmed # << >>
                   /\ Len(db.confirmed) = r.h + 1
                   /\ db.confirmed[r.h + 1] = r.b
                   /\ \A i \in 1 .. Len(TxsOf(r.b)) :
                         db.tx[TxsOf(r.b)[i]].conf = <<r.h, Mtp(r.b), i - 1>>]_vars

\* push_block of a block of two transactions has returned success.
C26_Witness ==
    \E t \in Threads :
        /\ th[t].pc = "ret" /\ th[t].op = "push_block" /\ th[t].rc = "success"
        /\ Len(TxsOf(th[t].b)) = 2
        /\ th[t].outer = "none"

\* What a close() has done so far when it goes through the given leaves.
CloseTrace(leaves) == <<"closed_">> \o leaves \o <<"store">>

\* C27 (as claimed): a close() sets closed_, then closes the leaves in the
\* order addresses, transactions, blocks, then releases the directory lock.
C27_CloseReverseOrder ==
    \A t \in Threads :
        th[t].op = "close" =>
            IsPrefix(th[t].log,
                     CloseTrace(IF index_addresses
                                THEN <<"addresses", "transactions", "blocks">>
                                ELSE <<"transactions", "blocks">>))

\* C27 (amended): a close() sets closed_, then closes the leaves in the order
\* they were opened in (blocks, transactions, addresses), stopping at a leaf
\* whose close fails, then releases the directory lock.
C27_CloseOpeningOrder ==
    \A t \in Threads :
        th[t].op = "close" =>
            /\ IsPrefix(th[t].log,
                        CloseTrace(IF index_addresses
                                   THEN <<"blocks", "transactions", "addresses">>
                                   ELSE <<"blocks", "transactions">>))
            /\ (th[t].failed /\ th[t].log # << >>) =>
                  (th[t].pc = "lret" /\ ~th[t].flag)

\* A close() of a store that indexes addresses has closed every leaf and
\* released the directory lock.
C27_Witness ==
    \E t \in Threads :
        /\ th[t].op = "close" /\ th[t].pc = "lret" /\ th[t].flag
        /\ index_addresses
        /\ Len(th[t].log) = 5
        /\ ~exclusive_lock

ReorgBetween(r) ==
    r.outer = "reorganize" /\ r.pc \in {"pa_loop", "push_all", "back"}

\* The pops of that reorganize are not over.
PopPhase(r) == r.pc = "pa_loop" \/ (r.pc = "back" /\ r.lh > r.fork.h)

\* The invariants of the two indexes: each a chain from genesis, the
\* confirmed index a prefix of the candidate index.
Sound(d) ==
    /\ Chained(d.candidate)
    /\ Chained(d.confirmed)
    /\ IsPrefix(d.confirmed, d.candidate)

\* C29: between two pops or pushes of a reorganize that was called with the
\* index invariants holding, the calling thread holds neither the write
\* mutex nor the flush lock, the target index is a chain from genesis whose
\* top is at or above the fork height and at most the old top (pop phase) or
\* the fork height plus the length of incoming (push phase), and the index
\* invariants hold.
C29_ReorganizeIntermediate ==
    \A t \in Threads :
        LET r == th[t]
            top == Len(Index(db, r.cand)) - 1
        IN  ReorgBetween(r) =>
                /\ write_mutex # t /\ flush_lock_mutex # t
                /\ Sound(r.pre) =>
                      /\ Chained(Index(db, r.cand))
                      /\ r.fork.h <= top
                      /\ PopPhase(r) => top <= Len(r.snap) - 1
                      /\ ~PopPhase(r) => top <= r.fork.h + Len(r.inc)
                      /\ Sound(db)

\* The entries that the reorganize of thread record r, now at its return,
\* has removed from the target index d: none when it returned before its
\* first pop, the entries above the present top when a pop failed, the
\* entries above the fork point when every pop succeeded.
Removed(r, d) ==
    IF Overflows(r.fork, r.inc) \/ VerifyFork(r.pre, r.fork, r.cand) # "success"
    THEN << >>
    ELSE IF r.lh > r.fork.h
    THEN SubSeq(r.snap, Len(Index(d, r.cand)) + 1, Len(r.snap))
    ELSE SubSeq(r.snap, r.fork.h + 2, Len(r.snap))

\* C30: when reorganize returns, with one calling thread, its outgoing list
\* holds exactly the entries it removed from the target index, in ascending
\* height order.
C30_OutgoingIsWhatWasRemoved ==
    \A t \in Threads :
        (th[t].pc = "rret" /\ th[t].outer = "reorganize") =>
            th[t].outg = Removed(th[t], db)

\* Thread t is in a header reorganize and has the result of a pop_header.
HeaderPopBack(t) ==
    /\ th[t].outer = "reorganize" /\ th[t].cand
    /\ th[t].pc = "back" /\ th[t].lh > th[t].fork.h

\* C31: in a header reorganize run beside other writers, an entry is put on
\* the outgoing list only for a pop_header that unindexed and returned that
\* header, and a pop_header at a height that is not the candidate top
\* returns an error, on which the reorganize returns operation_failed with
\* its outgoing list as it was.
C31_OutgoingOnlyWhatWasPopped ==
    [][\A t \in Threads :
         LET r == th[t] q == th'[t] IN
         /\ (HeaderPopBack(t) /\ q.outg # r.outg) =>
               /\ r.out \in Blocks
               /\ q.outg = <<r.out>> \o r.outg
         /\ (r.outer = "reorganize" /\ r.op = "pop_header" /\ r.pc = "verify"
               /\ q # r /\ VerifyTop(db, r.h, TRUE) # "success") =>
               (q.pc = "ret" /\ q.rc # "success")
         /\ (HeaderPopBack(t) /\ q # r /\ r.out \notin Blocks) =>
               (q.pc = "rret" /\ q.rc = "operation_failed" /\ q.outg = r.outg)]_vars

\* C32: whatever the lifetime of an accessor, assign gives up upgrade
\* ownership only when the accessor holds it, the destructor gives up shared
\* ownership only when the accessor holds it, and once every accessor is
\* destroyed and no remap is under way the mutex has no owner.
C32_UnlockMatchesMode ==
    [][\A a \in Accessors :
         /\ mem'.assigns[a] # mem.assigns[a] => mem.acc[a] = "constructed"
         /\ (mem'.acc[a] = "gone" /\ mem.acc[a] # "gone") =>
               mem.acc[a] = "assigned"
         /\ ((\A b \in Accessors : mem'.acc[b] \notin {"constructed", "assigned"})
               /\ mem'.remap = "idle") => mem'.mutex = FreeMutex]_vars
====
